---- MODULE Spec2Model ----
(***************************************************************************)
(* A model of the byte-parser crate: leaf cursors (Parser, StrParser)      *)
(* over an immutable slice and the wrappers IgnoreByte, WhileByteFn, Stop, *)
(* RecordIter and SplitOnByteIter stacked over them.                       *)
(*                                                                         *)
(* A cursor chain is a sequence of layers: chain[1] is the leaf and        *)
(* chain[i] wraps chain[i-1] (it holds the &mut to it).  Every trait       *)
(* method of ParseIterator is an operator taking the chain and the level   *)
(* of the layer it is called on, and returning the chain after the call.   *)
(***************************************************************************)
EXTENDS Integers, Sequences, FiniteSets, TLC

VARIABLES
    slice,   \* the underlying byte slice (never changes)
    chain,   \* the cursor chain, leaf first
    saved,   \* a point-in-time the caller captured with pit(), or NoSaved
    last,    \* what the last call was, what it returned, what it started from
    pc,      \* position of the driving program
    out      \* what the driving program has collected so far

vars == <<slice, chain, saved, last, pc, out>>

----------------------------------------------------------------------------
(* Bounds of the model. *)

\* longest slice
MaxLen == 2
\* most wrappers stacked over the leaf
MaxDepth == 2
\* longest slice of the programs that drive one fixed chain
MaxSlice == 4
\* most bytes such a program skips in a segment before it records
MaxSkip == 1
\* most calls of an iterator that need not end
MaxCalls == 6

\* the byte values of the model (u8 in the source)
Byte == 0 .. 2
\* the byte values of the programs that name four bytes
Byte4 == 0 .. 3

\* The slices of length n, one of each shape: every method compares bytes
\* for equality only and the callers below draw their bytes and predicates
\* from all of Byte, so a slice and its image under a renaming of the byte
\* values behave alike.  A slice is listed when its bytes appear in the
\* order 0, 1, 2 of first occurrence.
RECURSIVE SlicesOfLenOver(_, _)
SlicesOfLenOver(n, B) ==
    IF n = 0 THEN {<<>>}
    ELSE {Append(s, b) : s \in SlicesOfLenOver(n - 1, B), b \in B}

SlicesOfLen(n) == SlicesOfLenOver(n, Byte)

InOrder(s) ==
    \A k \in 1 .. Len(s) :
        s[k] = 0 \/ \E j \in 1 .. k - 1 : s[j] = s[k] - 1

SlicesUpTo(max) == {s \in UNION {SlicesOfLen(n) : n \in 0 .. max} : InOrder(s)}

Slices == SlicesUpTo(MaxLen)

Slices4 ==
    {s \in UNION {SlicesOfLenOver(n, Byte4) : n \in 0 .. MaxSlice} : InOrder(s)}

----------------------------------------------------------------------------
(* Position, Option and PointInTime values. *)

\* Position::null(), Position(None)
Null == -1
\* Option<Position>::None, the unset record_pos of a splitter
NoPos == -2
\* Option<u8>::None
NoByte == -1
\* Option<&Recorder>::None
NoRecorder == -2
\* a panic of the call (index out of range, expect on None)
Panic == <<-1>>

\* an addition that takes the null position for index 0
PosAddFromZero(pos, other) == IF pos = Null THEN other ELSE pos + other

\* impl Add<usize> for Position
PosAdd(pos, other) == IF pos = Null THEN other - 1 ELSE pos + other

\* ParserPointInTime
ParserPointInTime(pos) == [pos |-> pos]

\* PointInTime::record_pos: the trait default for ParserPointInTime, the
\* override for SplitOnBytePointInTime
RecordPos(pit) ==
    IF "record_pos" \in DOMAIN pit
    THEN IF pit.record_pos # NoPos THEN pit.record_pos ELSE pit.pos
    ELSE pit.pos

\* PointInTime::set_pos
SetPos(pit, pos) == [pit EXCEPT !.pos = pos]

\* body(v), with v evaluated once whatever body does with it
Bind(v, body(_)) == CHOOSE x \in {body(r) : r \in {v}} : TRUE

----------------------------------------------------------------------------
(* Layers. *)

Blank ==
    [kind |-> "", byte |-> 0, f |-> {}, pos |-> Null, byte_reached |-> FALSE,
     record_pos |-> NoPos, recorder |-> Null, seg |-> FALSE]

\* Parser::new, StrParser::new
ParserNew(kind) == [Blank EXCEPT !.kind = kind, !.pos = Null]

IsLeaf(l) == l.kind \in {"Parser", "StrParser"}

RECURSIVE Pit(_, _)
\* ParseIterator::pit
Pit(c, i) ==
    IF IsLeaf(c[i]) THEN ParserPointInTime(c[i].pos)
    ELSE IF c[i].kind = "SplitOnByteIter"
    THEN [pos |-> c[i].pos, byte_reached |-> c[i].byte_reached,
          record_pos |-> c[i].record_pos]
    ELSE Pit(c, i - 1)

\* the level whose layer defines the PointInTime type of level i
RECURSIVE PitOwner(_, _)
PitOwner(c, i) ==
    IF IsLeaf(c[i]) \/ c[i].kind = "SplitOnByteIter" THEN i
    ELSE PitOwner(c, i - 1)

\* a restore_pit that resynchronizes the position and forgets the rest
SplitSetPitPosOnly(l, pit) == [l EXCEPT !.pos = pit.pos]

\* SplitOnByteIter::restore_pit, the assignment self.pit = pit
SplitSetPit(l, pit) ==
    [l EXCEPT !.pos = pit.pos, !.byte_reached = pit.byte_reached,
              !.record_pos = pit.record_pos]

RECURSIVE RestorePit(_, _, _)
\* a restore_pit of a splitter that leaves its inner cursor where it is
RestorePitNoResync(c, i, pit) ==
    IF IsLeaf(c[i]) THEN [c EXCEPT ![i].pos = pit.pos]
    ELSE IF c[i].kind = "SplitOnByteIter"
    THEN [c EXCEPT ![i] = SplitSetPit(c[i], pit)]
    ELSE RestorePit(c, i - 1, pit)

\* ParseIterator::restore_pit
RestorePit(c, i, pit) ==
    IF IsLeaf(c[i]) THEN [c EXCEPT ![i].pos = pit.pos]
    ELSE IF c[i].kind = "SplitOnByteIter"
    THEN Bind(RestorePit(c, i - 1, SetPos(Pit(c, i - 1), pit.pos)),
              LAMBDA c1 : [c1 EXCEPT ![i] = SplitSetPit(c1[i], pit)])
    ELSE RestorePit(c, i - 1, pit)

\* ParseIterator::byte, of a cursor whose point-in-time is at pos
ByteAtPos(pos) ==
    IF pos = Null THEN NoByte
    ELSE IF pos < Len(slice) THEN slice[pos + 1]
    ELSE NoByte

\* ParseIterator::byte
ByteAt(c, i) == ByteAtPos(Pit(c, i).pos)

\* Parser::advance, StrParser::advance
ParserAdvance(c, i) ==
    IF PosAdd(c[i].pos, 1) < Len(slice)
    THEN [c |-> [c EXCEPT ![i].pos = PosAdd(c[i].pos, 1)], ok |-> TRUE]
    ELSE [c |-> c, ok |-> FALSE]

RECURSIVE Advance(_, _)
RECURSIVE WhileByteFnConsume(_, _, _)
RECURSIVE Consume(_, _)
RECURSIVE ConsumeAndCountFrom(_, _, _)
RECURSIVE ConsumeLenFrom(_, _, _, _)

\* ParseIterator::next, once self.advance() has returned r
NextByteAfter(r, i) ==
    [c |-> r.c, b |-> IF r.ok THEN ByteAt(r.c, i) ELSE NoByte]

\* ParseIterator::next
NextByte(c, i) == Bind(Advance(c, i), LAMBDA r : NextByteAfter(r, i))

\* a WhileByteFn::advance that restores the inner cursor whenever it
\* reports exhausted
WhileByteFnAdvanceAfterAlwaysRestore(n, pit, i, f) ==
    IF n.b # NoByte /\ n.b \in f THEN [c |-> n.c, ok |-> TRUE]
    ELSE [c |-> RestorePit(n.c, i, pit), ok |-> FALSE]

\* a WhileByteFn::advance that keeps the inner advance of a rejected byte
WhileByteFnAdvanceAfterNoRestore(n, pit, i, f) ==
    [c |-> n.c, ok |-> n.b # NoByte /\ n.b \in f]

\* WhileByteFn::advance, once self.inner.next() has returned n; pit is the
\* inner point-in-time taken before it
WhileByteFnAdvanceAfter(n, pit, i, f) ==
    IF n.b = NoByte THEN [c |-> n.c, ok |-> FALSE]
    ELSE IF n.b \in f THEN [c |-> n.c, ok |-> TRUE]
    ELSE [c |-> RestorePit(n.c, i, pit), ok |-> FALSE]

\* WhileByteFn::advance of a WhileByteFn with predicate f (the set of bytes
\* it accepts) whose inner cursor is level i
WhileByteFnAdvance(c, i, f) ==
    Bind(NextByte(c, i),
         LAMBDA n : WhileByteFnAdvanceAfter(n, Pit(c, i), i, f))

\* the loop of ParseIterator::consume on that WhileByteFn, once its advance
\* has returned r
WhileByteFnConsumeAfter(r, i, f) ==
    IF r.ok THEN WhileByteFnConsume(r.c, i, f) ELSE r.c

\* ParseIterator::consume on a WhileByteFn with predicate f over level i
WhileByteFnConsume(c, i, f) ==
    Bind(WhileByteFnAdvance(c, i, f),
         LAMBDA r : WhileByteFnConsumeAfter(r, i, f))

GiveBack(r, pit, i) ==
    IF r.ok THEN r ELSE [c |-> RestorePit(r.c, i, pit), ok |-> FALSE]

\* an IgnoreByte::advance that gives the drained bytes back when the inner
\* cursor has nothing after them
IgnoreByteAdvanceGiveBack(c, i) ==
    Bind(WhileByteFnConsume(c, i - 1, {c[i].byte}),
         LAMBDA c1 : Bind(Advance(c1, i - 1),
                          LAMBDA r : GiveBack(r, Pit(c, i - 1), i - 1)))

\* an IgnoreByte::advance that drains one ignored byte at most
IgnoreByteAdvanceDrainOne(c, i) ==
    Bind(WhileByteFnAdvance(c, i - 1, {c[i].byte}),
         LAMBDA r : Advance(r.c, i - 1))

\* IgnoreByte::advance
IgnoreByteAdvance(c, i) ==
    Bind(WhileByteFnConsume(c, i - 1, {c[i].byte}),
         LAMBDA c1 : Advance(c1, i - 1))

\* a SplitOnByteIter::advance that never sets record_pos
SplitOnByteIterAdvanceAfterNoRecordPos(r, start, i) ==
    IF ~r.ok THEN [c |-> r.c, ok |-> FALSE]
    ELSE IF ByteAtPos(Pit(r.c, i - 1).pos) = r.c[i].byte
    THEN [c |-> [r.c EXCEPT ![i].pos = Pit(r.c, i - 1).pos,
                            ![i].byte_reached = TRUE],
          ok |-> FALSE]
    ELSE [c |-> [r.c EXCEPT ![i].pos = Pit(r.c, i - 1).pos], ok |-> TRUE]

\* SplitOnByteIter::advance, once self.inner.advance() has returned r; start
\* is the inner position taken before it
SplitOnByteIterAdvanceAfter(r, start, i) ==
    IF ~r.ok THEN [c |-> r.c, ok |-> FALSE]
    ELSE IF ByteAtPos(Pit(r.c, i - 1).pos) = r.c[i].byte
    THEN [c |-> [r.c EXCEPT ![i].pos = Pit(r.c, i - 1).pos,
                            ![i].byte_reached = TRUE,
                            ![i].record_pos = start],
          ok |-> FALSE]
    ELSE [c |-> [r.c EXCEPT ![i].pos = Pit(r.c, i - 1).pos,
                            ![i].record_pos = NoPos],
          ok |-> TRUE]

\* a SplitOnByteIter::advance that does not look at byte_reached
SplitOnByteIterAdvanceThroughDelimiter(c, i) ==
    Bind(Advance(c, i - 1),
         LAMBDA r : SplitOnByteIterAdvanceAfter(r, Pit(c, i - 1).pos, i))

\* SplitOnByteIter::advance
SplitOnByteIterAdvance(c, i) ==
    IF c[i].byte_reached THEN [c |-> c, ok |-> FALSE]
    ELSE Bind(Advance(c, i - 1),
              LAMBDA r : SplitOnByteIterAdvanceAfter(r, Pit(c, i - 1).pos, i))

\* a Stop::advance that passes the call on to the inner cursor
StopAdvancePassOn(c, i) == Advance(c, i - 1)

\* Stop::advance
StopAdvance(c, i) == [c |-> c, ok |-> FALSE]

\* ParseIterator::advance, by the type of the layer
Advance(c, i) ==
    IF IsLeaf(c[i]) THEN ParserAdvance(c, i)
    ELSE IF c[i].kind = "IgnoreByte" THEN IgnoreByteAdvance(c, i)
    ELSE IF c[i].kind = "WhileByteFn" THEN WhileByteFnAdvance(c, i - 1, c[i].f)
    ELSE IF c[i].kind = "Stop" THEN StopAdvance(c, i)
    ELSE IF c[i].kind = "RecordIter" THEN Advance(c, i - 1)
    ELSE SplitOnByteIterAdvance(c, i)

\* ParseIterator::peek, once self.next() has returned n
PeekAfter(n, pit, i) == [c |-> RestorePit(n.c, i, pit), b |-> n.b]

\* ParseIterator::peek
Peek(c, i) == Bind(NextByte(c, i), LAMBDA n : PeekAfter(n, Pit(c, i), i))

\* an advance_if that takes the byte to test with next()
AdvanceIfAfterTaken(p, i, f) ==
    IF p.b = NoByte THEN [c |-> p.c, res |-> "None"]
    ELSE Bind(Advance(p.c, i),
              LAMBDA r : [c |-> r.c,
                          res |-> IF ~r.ok THEN "None"
                                  ELSE IF p.b \in f THEN "Some(true)"
                                  ELSE "Some(false)"])

\* ParseIterator::advance_if, once self.peek() has returned p; f is the set
\* of bytes the predicate accepts
AdvanceIfAfter(p, i, f) ==
    IF p.b = NoByte THEN [c |-> p.c, res |-> "None"]
    ELSE IF p.b \in f
    THEN Bind(Advance(p.c, i),
              LAMBDA r : [c |-> r.c,
                          res |-> IF r.ok THEN "Some(true)" ELSE "None"])
    ELSE [c |-> p.c, res |-> "Some(false)"]

\* ParseIterator::advance_if
AdvanceIf(c, i, f) == Bind(Peek(c, i), LAMBDA p : AdvanceIfAfter(p, i, f))

\* ParseIterator::next_if, once self.peek() has returned p
NextIfAfter(p, i, f) ==
    IF p.b = NoByte THEN [c |-> p.c, b |-> NoByte]
    ELSE IF p.b \in f THEN NextByte(p.c, i)
    ELSE [c |-> p.c, b |-> NoByte]

\* ParseIterator::next_if
NextIf(c, i, f) == Bind(Peek(c, i), LAMBDA p : NextIfAfter(p, i, f))

\* an expect_byte_fn that reports exhaustion whatever it saw
OptionExpectByteFnErrNone(b, f) ==
    [ok |-> b # NoByte /\ b \in f, err |-> NoByte]

\* impl ExpectByte for Option<u8>, expect_byte_fn: Ok(self), or Err(self)
\* with self the byte seen or None
OptionExpectByteFn(b, f) == [ok |-> b # NoByte /\ b \in f, err |-> b]

\* ParseIterator::expect_byte_fn, once self.next() has returned n
ExpectByteFnAfter(n, f) ==
    [c |-> n.c, ok |-> OptionExpectByteFn(n.b, f).ok,
     err |-> OptionExpectByteFn(n.b, f).err]

\* an expect_byte_fn that puts the cursor back when it fails
ExpectByteFnRollsBack(c, i, f) ==
    Bind(NextByte(c, i),
         LAMBDA n : IF OptionExpectByteFn(n.b, f).ok
                    THEN ExpectByteFnAfter(n, f)
                    ELSE [c |-> c, ok |-> FALSE,
                          err |-> OptionExpectByteFn(n.b, f).err])

\* ParseIterator::expect_byte_fn
ExpectByteFn(c, i, f) == Bind(NextByte(c, i), LAMBDA n : ExpectByteFnAfter(n, f))

\* ParseIterator::expect_byte
ExpectByte(c, i, byte) == ExpectByteFn(c, i, {byte})

\* ParseIterator::expect_none, once self.next() has returned n: Err(b) for
\* Some(b), Ok(self) for None
ExpectNoneAfter(n) == [c |-> n.c, ok |-> n.b = NoByte, err |-> n.b]

\* ParseIterator::expect_none
ExpectNone(c, i) == Bind(NextByte(c, i), LAMBDA n : ExpectNoneAfter(n))

\* the loop of ParseIterator::consume, once self.advance() has returned r
ConsumeAfter(r, i) == IF r.ok THEN Consume(r.c, i) ELSE r.c

\* ParseIterator::consume
Consume(c, i) == Bind(Advance(c, i), LAMBDA r : ConsumeAfter(r, i))

\* the loop of consume_and_count, once self.advance() has returned r
ConsumeAndCountAfter(r, i, n) ==
    IF r.ok THEN ConsumeAndCountFrom(r.c, i, n + 1) ELSE [c |-> r.c, n |-> n]

\* consume_and_count with n bytes counted so far
ConsumeAndCountFrom(c, i, n) ==
    Bind(Advance(c, i), LAMBDA r : ConsumeAndCountAfter(r, i, n))

\* ParseIterator::consume_and_count
ConsumeAndCount(c, i) == ConsumeAndCountFrom(c, i, 0)

\* a consume_len that reports the length asked for when it fails
ConsumeLenAfterReportsLen(r, i, len, k) ==
    IF r.ok THEN ConsumeLenFrom(r.c, i, len, k + 1)
    ELSE [c |-> r.c, ok |-> FALSE, n |-> len]

\* the loop of consume_len, once self.advance() has returned r
ConsumeLenAfter(r, i, len, k) ==
    IF r.ok THEN ConsumeLenFrom(r.c, i, len, k + 1)
    ELSE [c |-> r.c, ok |-> FALSE, n |-> k]

\* consume_len with k bytes consumed so far
ConsumeLenFrom(c, i, len, k) ==
    IF k >= len THEN [c |-> c, ok |-> TRUE, n |-> len]
    ELSE Bind(Advance(c, i), LAMBDA r : ConsumeLenAfter(r, i, len, k))

\* ParseIterator::consume_len: Ok, or Err(n) after n advances
ConsumeLen(c, i, len) == ConsumeLenFrom(c, i, len, 0)

\* count_byte, once the WhileByteFn it made over level i is consumed and
\* counted: the WhileByteFn is dropped
CountByteAfter(r, c, i) ==
    [c |-> SubSeq(r.c, 1, i) \o SubSeq(c, i + 1, Len(c)), n |-> r.n]

\* ParseIterator::count_byte
CountByte(c, i, byte) ==
    Bind(ConsumeAndCountFrom(
             Append(SubSeq(c, 1, i),
                    [Blank EXCEPT !.kind = "WhileByteFn", !.f = {byte}]),
             i + 1, 0),
         LAMBDA r : CountByteAfter(r, c, i))

RECURSIVE Recorder(_, _)
\* a recorder that a Stop does not pass on
RecorderHiddenByStop(c, i) ==
    IF IsLeaf(c[i]) \/ c[i].kind = "Stop" THEN NoRecorder
    ELSE IF c[i].kind = "RecordIter" THEN c[i].recorder
    ELSE Recorder(c, i - 1)

\* ParseIterator::recorder
Recorder(c, i) ==
    IF IsLeaf(c[i]) THEN NoRecorder
    ELSE IF c[i].kind = "RecordIter" THEN c[i].recorder
    ELSE Recorder(c, i - 1)

\* a to_slice that ends at the position of the cursor
ToSliceUpToPos(c, i) ==
    IF Recorder(c, i) = NoRecorder THEN Panic
    ELSE LET start == PosAdd(Recorder(c, i), 1)
             end == PosAdd(Pit(c, i).pos, 1)
         IN  IF start > end \/ end > Len(slice) THEN Panic
             ELSE SubSeq(slice, start + 1, end)

\* ParseIterator::to_slice
ToSlice(c, i) ==
    IF Recorder(c, i) = NoRecorder THEN Panic
    ELSE LET start == PosAdd(Recorder(c, i), 1)
             end == PosAdd(RecordPos(Pit(c, i)), 1)
         IN  IF start > end \/ end > Len(slice) THEN Panic
             ELSE SubSeq(slice, start + 1, end)

----------------------------------------------------------------------------
(* Text.  A byte of a text is 0, a character of one byte, 1, the lead byte *)
(* of a character of two bytes, or 2, its continuation byte.               *)

\* std::str::from_utf8(s).is_ok(): s is whole characters
RECURSIVE IsUtf8(_)
IsUtf8(s) ==
    IF s = <<>> THEN TRUE
    ELSE IF Head(s) = 0 THEN IsUtf8(Tail(s))
    ELSE IF Head(s) = 1
    THEN Len(s) >= 2 /\ s[2] = 2 /\ IsUtf8(SubSeq(s, 3, Len(s)))
    ELSE FALSE

\* the values of a &str of MaxLen bytes at most
Texts == {s \in UNION {SlicesOfLen(n) : n \in 0 .. MaxLen} : IsUtf8(s)}

RECURSIVE IsValidUtf8(_, _)
\* an is_valid_utf8 that a RecordIter answers for itself
IsValidUtf8RecordAsserts(c, i) ==
    IF c[i].kind = "Parser" THEN FALSE
    ELSE IF c[i].kind \in {"StrParser", "RecordIter"} THEN TRUE
    ELSE IsValidUtf8(c, i - 1)

\* ParseIterator::is_valid_utf8 of the type of level i
IsValidUtf8(c, i) ==
    IF c[i].kind = "Parser" THEN FALSE
    ELSE IF c[i].kind = "StrParser" THEN TRUE
    ELSE IsValidUtf8(c, i - 1)

\* ParseIterator::to_str_unchecked: the span taken for text as it is
ToStrUnchecked(c, i) == ToSlice(c, i)

\* std::str::from_utf8(self.to_slice()).expect("invalid utf8")
FromUtf8Expect(s) == IF s # Panic /\ IsUtf8(s) THEN s ELSE Panic

\* ParseIterator::to_str
ToStr(c, i) ==
    IF IsValidUtf8(c, i) THEN ToStrUnchecked(c, i)
    ELSE FromUtf8Expect(ToSlice(c, i))

\* std::str::from_utf8(self.to_slice())
FromUtf8(s) ==
    IF s = Panic THEN [ok |-> FALSE, str |-> Panic]
    ELSE IF IsUtf8(s) THEN [ok |-> TRUE, str |-> s]
    ELSE [ok |-> FALSE, str |-> <<>>]

\* Ok(self.to_str_unchecked())
OkUnchecked(s) == [ok |-> s # Panic, str |-> s]

\* ParseIterator::try_to_str: Ok(str) or Err; a call that panics has Panic
\* for its str
TryToStr(c, i) ==
    IF IsValidUtf8(c, i) THEN OkUnchecked(ToStrUnchecked(c, i))
    ELSE FromUtf8(ToSlice(c, i))

----------------------------------------------------------------------------
(* Constructors of the wrappers: each pushes a layer. *)

Top(c) == Len(c)

\* IgnoreByte::new
IgnoreByteNew(c, byte) ==
    Append(c, [Blank EXCEPT !.kind = "IgnoreByte", !.byte = byte])

\* WhileByteFn::new
WhileByteFnNew(c, f) ==
    Append(c, [Blank EXCEPT !.kind = "WhileByteFn", !.f = f])

\* Stop::new
StopNew(c) == Append(c, [Blank EXCEPT !.kind = "Stop"])

\* a RecordIter::new that anchors at the position of the inner cursor
RecordIterNewAtPos(c) ==
    Append(c, [Blank EXCEPT !.kind = "RecordIter",
                            !.recorder = Pit(c, Top(c)).pos])

\* RecordIter::new
RecordIterNew(c) ==
    Append(c, [Blank EXCEPT !.kind = "RecordIter",
                            !.recorder = RecordPos(Pit(c, Top(c)))])

\* a splitter that starts as if no delimiter had been reached
SplitOnByteNewUnreached(c, byte) ==
    Append(c, [Blank EXCEPT !.kind = "SplitOnByteIter", !.byte = byte,
                            !.pos = Pit(c, Top(c)).pos,
                            !.byte_reached = FALSE, !.record_pos = NoPos])

\* SplitOnByte::new, SplitOnByteIter::new
SplitOnByteNew(c, byte) ==
    Append(c, [Blank EXCEPT !.kind = "SplitOnByteIter", !.byte = byte,
                            !.pos = Pit(c, Top(c)).pos,
                            !.byte_reached = TRUE, !.record_pos = NoPos])

\* a reach_split_byte that opens no segment when no byte is left
ReachSplitByteAfterUnlessEmpty(c1, i) ==
    [c |-> [c1 EXCEPT ![i].byte_reached = FALSE],
     ok |-> c1[i].byte_reached /\ Advance(c1, i - 1).ok]

\* a reach_split_byte that leaves byte_reached set
ReachSplitByteAfterNoReset(c1, i) == [c |-> c1, ok |-> c1[i].byte_reached]

\* SplitOnByteIter::reach_split_byte, once the segment is consumed
ReachSplitByteAfter(c1, i) ==
    IF c1[i].byte_reached
    THEN [c |-> [c1 EXCEPT ![i].byte_reached = FALSE], ok |-> TRUE]
    ELSE [c |-> c1, ok |-> FALSE]

\* a reach_split_byte that does not consume the rest of the segment
ReachSplitByteNoConsume(c, i) == ReachSplitByteAfter(c, i)

\* SplitOnByteIter::reach_split_byte
ReachSplitByte(c, i) ==
    Bind(Consume(c, i), LAMBDA c1 : ReachSplitByteAfter(c1, i))

\* a SplitOnByte::next that does not assign record_pos
SplitOnByteNextAfterKeepsRecordPos(r, i) ==
    [c |-> [r.c EXCEPT ![i].seg = r.ok], ok |-> r.ok]

\* SplitOnByte::next, once reach_split_byte has returned r; seg tells
\* whether the caller holds the segment
SplitOnByteNextAfter(r, i) ==
    IF ~r.ok THEN [c |-> [r.c EXCEPT ![i].seg = FALSE], ok |-> FALSE]
    ELSE [c |-> [r.c EXCEPT ![i].record_pos = NoPos, ![i].seg = TRUE],
          ok |-> TRUE]

\* SplitOnByte::next
SplitOnByteNext(c, i) ==
    Bind(ReachSplitByte(c, i), LAMBDA r : SplitOnByteNextAfter(r, i))

----------------------------------------------------------------------------
(* The caller: any program that builds a chain over a Parser and calls the *)
(* methods of the outermost cursor.  The borrow rules decide what it can   *)
(* call: only the outermost layer is reachable, a wrapper is dropped       *)
(* before its inner cursor is used again, and a segment of a splitter is   *)
(* reachable only after SplitOnByte::next returned it.                     *)

NoSaved == [owner |-> 0]
NoLast == [op |-> "none"]

\* the outermost layer is a cursor the caller can call
CanUse(c) == c[Top(c)].kind = "SplitOnByteIter" => c[Top(c)].seg

Init ==
    /\ slice \in Slices
    /\ chain = <<ParserNew("Parser")>>
    /\ saved = NoSaved
    /\ last = NoLast
    /\ pc = "run"
    /\ out = <<>>

\* cursor.next()
DoNext ==
    /\ CanUse(chain)
    /\ \E n \in {NextByte(chain, Top(chain))} :
           /\ chain' = n.c
           /\ last' = [op |-> "next", b |-> n.b,
                       pit |-> Pit(chain, Top(chain)),
                       inner |-> IF Top(chain) > 1
                                 THEN NextByte(chain, Top(chain) - 1).b
                                 ELSE NoByte]
    /\ saved' = NoSaved
    /\ UNCHANGED <<slice, pc, out>>

\* the first byte other than byte that repeated next() on level i returns
RECURSIVE FirstOther(_, _, _)
FirstOther(c, i, byte) ==
    Bind(NextByte(c, i),
         LAMBDA n : IF n.b = byte THEN FirstOther(n.c, i, byte) ELSE n.b)

\* cursor.count_byte(byte); it wraps the cursor, so the bound on the
\* wrappers holds for it too
DoCountByte ==
    /\ CanUse(chain)
    /\ Len(chain) <= MaxDepth
    /\ \E byte \in Byte :
        \E r \in {CountByte(chain, Top(chain), byte)} :
            /\ chain' = r.c
            /\ last' = [op |-> "count_byte", n |-> r.n, byte |-> byte,
                        other |-> FirstOther(chain, Top(chain), byte)]
    /\ saved' = NoSaved
    /\ UNCHANGED <<slice, pc, out>>

\* cursor.peek()
DoPeek ==
    /\ CanUse(chain)
    /\ \E n \in {Peek(chain, Top(chain))} :
           /\ chain' = n.c
           /\ last' = [op |-> "peek", b |-> n.b, pit |-> Pit(chain, Top(chain))]
    /\ saved' = IF saved.owner = 0 THEN saved ELSE [saved EXCEPT !.peeked = TRUE]
    /\ UNCHANGED <<slice, pc, out>>

\* let pit = cursor.pit(); the caller keeps it while it only peeks
DoPit ==
    /\ CanUse(chain)
    /\ saved' = [owner |-> PitOwner(chain, Top(chain)),
                 pit |-> Pit(chain, Top(chain)), snap |-> chain,
                 peeked |-> FALSE]
    /\ last' = NoLast
    /\ UNCHANGED <<slice, chain, pc, out>>

\* cursor.restore_pit(pit), with a pit received from this instance
DoRestorePit ==
    /\ CanUse(chain)
    /\ saved.owner = PitOwner(chain, Top(chain))
    /\ chain' = RestorePit(chain, Top(chain), saved.pit)
    /\ last' = [op |-> "restore_pit", pit |-> saved.pit, snap |-> saved.snap,
                peeked |-> saved.peeked]
    /\ saved' = NoSaved
    /\ UNCHANGED <<slice, pc, out>>

Wrapped(c) ==
    /\ CanUse(chain)
    /\ Len(chain) <= MaxDepth
    /\ chain' = c
    /\ last' = NoLast
    /\ saved' = NoSaved
    /\ UNCHANGED <<slice, pc, out>>

DoIgnoreByte == \E byte \in Byte : Wrapped(IgnoreByteNew(chain, byte))
DoWhileByteFn == \E f \in SUBSET Byte : Wrapped(WhileByteFnNew(chain, f))
DoStop == Wrapped(StopNew(chain))
DoRecord == Wrapped(RecordIterNew(chain))
DoSplitOnByte == \E byte \in Byte : Wrapped(SplitOnByteNew(chain, byte))

\* splitter.next()
DoSplitOnByteNext ==
    /\ chain[Top(chain)].kind = "SplitOnByteIter"
    /\ \E r \in {SplitOnByteNext(chain, Top(chain))} :
           /\ chain' = r.c
           /\ last' = [op |-> "split_next", ok |-> r.ok]
    /\ saved' = NoSaved
    /\ UNCHANGED <<slice, pc, out>>

\* the outermost wrapper goes out of scope
DoDrop ==
    /\ Len(chain) > 1
    /\ chain' = SubSeq(chain, 1, Len(chain) - 1)
    /\ last' = NoLast
    /\ saved' = NoSaved
    /\ UNCHANGED <<slice, pc, out>>

Next ==
    \/ DoNext
    \/ DoCountByte
    \/ DoPeek
    \/ DoIgnoreByte
    \/ DoWhileByteFn
    \/ DoStop
    \/ DoRecord
    \/ DoSplitOnByte
    \/ DoSplitOnByteNext
    \/ DoDrop

Spec == Init /\ [][Next]_vars

\* the same callers, which also capture a point-in-time, peek and restore it
NextPit ==
    \/ Next
    \/ DoPit
    \/ DoRestorePit

SpecPit == Init /\ [][NextPit]_vars

\* cursor.consume_len(len)
DoConsumeLen ==
    /\ CanUse(chain)
    /\ Len(chain) <= MaxDepth
    /\ \E len \in 0 .. MaxLen + 1 :
        \E r \in {ConsumeLen(chain, Top(chain), len)} :
            /\ chain' = r.c
            /\ last' = [op |-> "consume_len", len |-> len, ok |-> r.ok,
                        n |-> r.n, snap |-> chain]
    /\ saved' = NoSaved
    /\ UNCHANGED <<slice, pc, out>>

\* cursor.expect_byte(byte)
DoExpectByte ==
    /\ CanUse(chain)
    /\ Len(chain) <= MaxDepth
    /\ \E byte \in Byte :
        \E r \in {ExpectByte(chain, Top(chain), byte)} :
            /\ chain' = r.c
            /\ last' = [op |-> "expect_byte", byte |-> byte, ok |-> r.ok,
                        err |-> r.err, snap |-> chain]
    /\ saved' = NoSaved
    /\ UNCHANGED <<slice, pc, out>>

\* cursor.advance_if(|&b| b == byte)
DoAdvanceIf ==
    /\ CanUse(chain)
    /\ Len(chain) <= MaxDepth
    /\ \E byte \in Byte :
        \E r \in {AdvanceIf(chain, Top(chain), {byte})} :
            /\ chain' = r.c
            /\ last' = [op |-> "advance_if", f |-> {byte}, res |-> r.res,
                        snap |-> chain]
    /\ saved' = NoSaved
    /\ UNCHANGED <<slice, pc, out>>

\* cursor.next_if(|&b| b == byte)
DoNextIf ==
    /\ CanUse(chain)
    /\ Len(chain) <= MaxDepth
    /\ \E byte \in Byte :
        \E r \in {NextIf(chain, Top(chain), {byte})} :
            /\ chain' = r.c
            /\ last' = [op |-> "next_if", f |-> {byte}, b |-> r.b,
                        snap |-> chain]
    /\ saved' = NoSaved
    /\ UNCHANGED <<slice, pc, out>>

\* the callers that build their chains alike and call the derived operations
NextDerived ==
    \/ DoNext
    \/ DoIgnoreByte
    \/ DoWhileByteFn
    \/ DoStop
    \/ DoRecord
    \/ DoSplitOnByte
    \/ DoSplitOnByteNext
    \/ DoDrop
    \/ DoConsumeLen
    \/ DoExpectByte
    \/ DoAdvanceIf
    \/ DoNextIf

SpecDerived == Init /\ [][NextDerived]_vars

\* The callers that parse a text, from its bytes with a Parser or from the
\* &str with a StrParser, and materialize what they record.  A call that
\* panics ends the program.
InitText ==
    /\ slice \in Texts
    /\ \E kind \in {"Parser", "StrParser"} : chain = <<ParserNew(kind)>>
    /\ saved = NoSaved
    /\ last = NoLast
    /\ pc = "run"
    /\ out = <<>>

\* cursor.to_slice()
DoToSlice ==
    /\ CanUse(chain)
    /\ \E r \in {ToSlice(chain, Top(chain))} :
           /\ last' = [op |-> "to_slice", res |-> r]
           /\ pc' = IF r = Panic THEN "panic" ELSE pc
    /\ saved' = NoSaved
    /\ UNCHANGED <<slice, chain, out>>

\* cursor.to_str()
DoToStr ==
    /\ CanUse(chain)
    /\ \E r \in {ToStr(chain, Top(chain))} :
           /\ last' = [op |-> "to_str", res |-> r]
           /\ pc' = IF r = Panic THEN "panic" ELSE pc
    /\ saved' = NoSaved
    /\ UNCHANGED <<slice, chain, out>>

\* cursor.try_to_str()
DoTryToStr ==
    /\ CanUse(chain)
    /\ \E r \in {TryToStr(chain, Top(chain))} :
           /\ last' = [op |-> "try_to_str", res |-> r.str, ok |-> r.ok]
           /\ pc' = IF r.str = Panic THEN "panic" ELSE pc
    /\ saved' = NoSaved
    /\ UNCHANGED <<slice, chain, out>>

NextText ==
    \/ pc = "run" /\ DoNext
    \/ pc = "run" /\ DoIgnoreByte
    \/ pc = "run" /\ DoWhileByteFn
    \/ pc = "run" /\ DoStop
    \/ pc = "run" /\ DoRecord
    \/ pc = "run" /\ DoSplitOnByte
    \/ pc = "run" /\ DoSplitOnByteNext
    \/ pc = "run" /\ DoDrop
    \/ pc = "run" /\ DoToSlice
    \/ pc = "run" /\ DoToStr
    \/ pc = "run" /\ DoTryToStr

SpecText == InitText /\ [][NextText]_vars

\* cursor.while_byte_fn(|b| b == byte)
DoWhileByteIs == \E byte \in Byte : Wrapped(WhileByteFnNew(chain, {byte}))

\* cursor.expect_byte_fn(f)
DoExpectByteFn ==
    /\ CanUse(chain)
    /\ \E f \in SUBSET Byte :
        \E r \in {ExpectByteFn(chain, Top(chain), f)} :
            /\ chain' = r.c
            /\ last' = [op |-> "expect_byte_fn", ok |-> r.ok, err |-> r.err,
                        snap |-> chain]
    /\ saved' = NoSaved
    /\ UNCHANGED <<slice, pc, out>>

\* cursor.expect_none()
DoExpectNone ==
    /\ CanUse(chain)
    /\ \E r \in {ExpectNone(chain, Top(chain))} :
           /\ chain' = r.c
           /\ last' = [op |-> "expect_none", ok |-> r.ok, err |-> r.err,
                       snap |-> chain]
    /\ saved' = NoSaved
    /\ UNCHANGED <<slice, pc, out>>

\* the callers that state what they expect of the next byte
NextExpect ==
    \/ DoNext
    \/ DoIgnoreByte
    \/ DoWhileByteIs
    \/ DoRecord
    \/ DoSplitOnByte
    \/ DoSplitOnByteNext
    \/ DoExpectByte
    \/ DoExpectByteFn
    \/ DoExpectNone

SpecExpect == Init /\ [][NextExpect]_vars

\* The callers that hold a point-in-time while they go on: they capture it
\* from the outermost cursor, call next() and peek(), and restore it into the
\* cursor they took it from.  Wrapping the cursor, dropping it and asking
\* the splitter for its next segment end the life of the point-in-time.

\* let pit = cursor.pit()
DoPitHeld ==
    /\ CanUse(chain)
    /\ saved' = [owner |-> PitOwner(chain, Top(chain)),
                 pit |-> Pit(chain, Top(chain)), peeked |-> FALSE]
    /\ last' = NoLast
    /\ UNCHANGED <<slice, chain, pc, out>>

\* cursor.next(), by a caller that keeps its point-in-time
DoNextHeld ==
    /\ CanUse(chain)
    /\ \E n \in {NextByte(chain, Top(chain))} :
           /\ chain' = n.c
           /\ last' = [op |-> "next", b |-> n.b]
    /\ UNCHANGED <<slice, saved, pc, out>>

\* cursor.restore_pit(pit)
DoRestoreHeld ==
    /\ CanUse(chain)
    /\ saved.owner = PitOwner(chain, Top(chain))
    /\ chain' = RestorePit(chain, Top(chain), saved.pit)
    /\ last' = [op |-> "restore_pit", pit |-> saved.pit,
                from |-> Pit(chain, Top(chain))]
    /\ UNCHANGED <<slice, saved, pc, out>>

NextRestore ==
    \/ DoNextHeld
    \/ DoPeek
    \/ DoPitHeld
    \/ DoRestoreHeld
    \/ DoIgnoreByte
    \/ DoWhileByteIs
    \/ DoRecord
    \/ DoSplitOnByte
    \/ DoSplitOnByteNext

SpecRestore == Init /\ [][NextRestore]_vars

----------------------------------------------------------------------------
(* Claims checked over every caller. *)

\* C1: peek on the outermost cursor of any chain leaves that cursor's
\* point-in-time as it was before the call, whether it returned a byte or
\* none.
PeekKeepsPit ==
    last.op = "peek" => Pit(chain, Top(chain)) = last.pit

\* a peek through a segment of a splitter over a wrapped leaf returned a byte
PeekKeepsPitWitness ==
    /\ last.op = "peek"
    /\ last.b # NoByte
    /\ Len(chain) = 3
    /\ chain[3].kind = "SplitOnByteIter"

\* C8: when a WhileByteFn reports exhausted although its inner cursor had a
\* byte to give (so the predicate rejected it), the inner cursor, advanced
\* directly, gives exactly that byte; and count_byte leaves the cursor where
\* its next byte is the first one that did not match.
WhileByteFnLeavesRejected ==
    /\ ( /\ last.op = "next"
         /\ chain[Top(chain)].kind = "WhileByteFn"
         /\ last.b = NoByte
         /\ last.inner # NoByte )
       => /\ last.inner \notin chain[Top(chain)].f
          /\ NextByte(chain, Top(chain) - 1).b = last.inner
    /\ last.op = "count_byte"
       => NextByte(chain, Top(chain)).b = last.other

\* a WhileByteFn over a wrapped cursor stopped at a byte it rejected
WhileByteFnLeavesRejectedWitness ==
    /\ last.op = "next"
    /\ Len(chain) = 3
    /\ chain[3].kind = "WhileByteFn"
    /\ chain[2].kind \in {"IgnoreByte", "SplitOnByteIter"}
    /\ last.b = NoByte
    /\ last.inner # NoByte

\* the chain is a Parser, a RecordIter and an IgnoreByte, in either order
IgnoreInRecord ==
    /\ Len(chain) = 3
    /\ {chain[2].kind, chain[3].kind} = {"RecordIter", "IgnoreByte"}

\* C10: after traversing through IgnoreByte(X) to exhaustion inside a
\* recording scope over a leaf, the span is every raw byte of the slice after
\* the recording anchor, the bytes equal to X among them.
IgnoredBytesStayInSpan ==
    (IgnoreInRecord /\ last.op = "next" /\ last.b = NoByte)
       => ToSlice(chain, 3) =
            SubSeq(slice, PosAdd(Recorder(chain, 3), 1) + 1, Len(slice))

\* the traversal ended behind a trailing ignored byte, and an ordinary byte
\* is in the span too
IgnoredBytesStayInSpanWitness ==
    /\ IgnoreInRecord
    /\ last.op = "next"
    /\ last.b = NoByte
    /\ Len(slice) >= 2
    /\ slice[Len(slice)] = (IF chain[2].kind = "IgnoreByte" THEN chain[2].byte
                            ELSE chain[3].byte)
    /\ Len(ToSlice(chain, 3)) >= 2

----------------------------------------------------------------------------
(* What a caller can observe of a chain from now on. *)

\* the bytes repeated next() on level i returns until it returns none
RECURSIVE Drain(_, _)
Drain(c, i) ==
    LET n == NextByte(c, i)
    IN  IF n.b = NoByte THEN [c |-> n.c, bytes |-> <<>>]
        ELSE LET d == Drain(n.c, i)
             IN  [c |-> d.c, bytes |-> <<n.b>> \o d.bytes]

\* the segments the splitter of level i yields from now on, each drained
RECURSIVE LaterSegments(_, _)
LaterSegments(c, i) ==
    LET r == SplitOnByteNext(c, i)
    IN  IF ~r.ok THEN [c |-> r.c, segs |-> <<>>]
        ELSE LET d == Drain(r.c, i)
                 rest == LaterSegments(d.c, i)
             IN  [c |-> rest.c, segs |-> <<d.bytes>> \o rest.segs]

\* level by level from level i down to the leaf: the bytes the cursor still
\* returns (none at once when it is exhausted) and, of a splitter, the
\* segments it yields after that; then the wrapper is dropped
RECURSIVE Observe(_, _)
Observe(c, i) ==
    IF i = 0 THEN <<>>
    ELSE LET d == IF c[i].kind = "SplitOnByteIter" /\ ~c[i].seg
                  THEN [c |-> c, bytes |-> <<>>]
                  ELSE Drain(c, i)
             s == IF c[i].kind = "SplitOnByteIter"
                  THEN LaterSegments(d.c, i)
                  ELSE [c |-> d.c, segs |-> <<>>]
         IN  <<[bytes |-> d.bytes, segs |-> s.segs]>> \o Observe(s.c, i - 1)

\* the number of splitters in the chain
Splitters(c) == Cardinality({i \in 1 .. Len(c) : c[i].kind = "SplitOnByteIter"})

\* C2: a point-in-time captured, any number of peeks, the point-in-time
\* restored: the chain is observably what it was at the capture (same next
\* bytes, same exhaustion, same later segments of every splitter in it).
PeeksThenRestoreUnobservable ==
    (last.op = "restore_pit" /\ last.peeked)
       => Observe(chain, Top(chain)) = Observe(last.snap, Top(last.snap))

\* the same, of the chains that hold at most one splitter
PeeksThenRestoreUnobservableOneSplitter ==
    (last.op = "restore_pit" /\ Splitters(chain) <= 1)
       => Observe(chain, Top(chain)) = Observe(last.snap, Top(last.snap))

----------------------------------------------------------------------------
(* A program that drives one splitter over a Parser to its end:            *)
(*                                                                         *)
(*     parser.next(); ...              (any number of times)               *)
(*     let start = parser.pit();                                           *)
(*     let mut splitter = parser.split_on_byte(byte);                      *)
(*     splitter.for_each(|seg| {                                           *)
(*         seg.consume_len(skip);                                          *)
(*         let mut rec = seg.record();                                     *)
(*         let full = rec.consume_len(take).is_err();                      *)
(*         out.push(rec.to_slice())                                        *)
(*     });                                                                 *)
(*     splitter.next(); ...            (any number of times)               *)
(*                                                                         *)
(* with skip and take chosen anew for every segment.  A take longer than   *)
(* the segment is consume().                                               *)

InitSplit ==
    /\ slice \in SlicesUpTo(MaxSlice)
    /\ chain = <<ParserNew("Parser")>>
    /\ saved = NoSaved
    /\ last = NoLast
    /\ pc = "start"
    /\ out = <<>>

SkipLeading ==
    /\ pc = "start"
    /\ \E n \in {NextByte(chain, 1)} :
           /\ n.b # NoByte
           /\ chain' = n.c
    /\ UNCHANGED <<slice, saved, last, pc, out>>

StartSplit ==
    /\ pc = "start"
    /\ \E byte \in Byte : chain' = SplitOnByteNew(chain, byte)
    /\ saved' = [owner |-> 1, pit |-> Pit(chain, 1)]
    /\ pc' = "split"
    /\ UNCHANGED <<slice, last, out>>

\* one turn of for_each: the call of next() and, if it yields, the closure
ForEachSegment ==
    /\ pc = "split"
    /\ \E r \in {SplitOnByteNext(chain, 2)} :
        IF ~r.ok
        THEN /\ chain' = r.c
             /\ pc' = "done"
             /\ last' = [op |-> "split_next", ok |-> FALSE]
             /\ out' = out
        ELSE \E skip \in 0 .. MaxSkip, take \in 0 .. MaxSlice + 1 :
             \E c2 \in {RecordIterNew(ConsumeLen(r.c, 2, skip).c)} :
             \E t \in {ConsumeLen(c2, 3, take)} :
                /\ chain' = SubSeq(t.c, 1, 2)
                /\ pc' = "split"
                /\ last' = [op |-> "split_next", ok |-> TRUE]
                /\ out' = Append(out,
                      [start |-> RecordPos(Pit(r.c, 2)),
                       skip |-> skip,
                       anchor |-> Recorder(c2, 3),
                       span |-> ToSlice(t.c, 3),
                       full |-> ~t.ok,
                       closed |-> t.c[2].byte_reached,
                       pos |-> t.c[2].pos])
    /\ UNCHANGED <<slice, saved>>

\* next() called again after it reported none
NextAfterNone ==
    /\ pc = "done"
    /\ \E r \in {SplitOnByteNext(chain, 2)} :
           /\ chain' = r.c
           /\ last' = [op |-> "split_next", ok |-> r.ok, again |-> TRUE]
    /\ UNCHANGED <<slice, saved, pc, out>>

NextSplit ==
    \/ SkipLeading
    \/ StartSplit
    \/ ForEachSegment
    \/ NextAfterNone

SpecSplit == InitSplit /\ [][NextSplit]_vars

\* the program runs on: it makes its splitter, and for_each loops until
\* next() reports none
SpecSplitFair ==
    SpecSplit /\ WF_vars(StartSplit) /\ WF_vars(ForEachSegment)

\* the delimiter of the splitter
Delimiter == chain[2].byte

\* the part of the slice the splitter scans: all after the Parser's position
\* when the splitter was made
ScanFrom == PosAdd(saved.pit.pos, 1)
Scanned == SubSeq(slice, ScanFrom + 1, Len(slice))

\* the positions of the delimiters in the scanned part, in order
RECURSIVE Ascending(_)
Ascending(S) ==
    IF S = {} THEN <<>>
    ELSE <<CHOOSE x \in S : \A y \in S : x <= y>>
         \o Ascending(S \ {CHOOSE x \in S : \A y \in S : x <= y})

DelimiterPositions ==
    Ascending({p \in ScanFrom .. Len(slice) - 1 : slice[p + 1] = Delimiter})

EndsWithDelimiter == Scanned # <<>> /\ slice[Len(slice)] = Delimiter

\* the spans joined with the delimiter byte between them
RECURSIVE Join(_, _)
Join(o, d) ==
    IF o = <<>> THEN <<>>
    ELSE IF Len(o) = 1 THEN o[1].span
    ELSE o[1].span \o <<d>> \o Join(Tail(o), d)

\* every segment was recorded from its start and consumed to its end
AllWhole == \A m \in 1 .. Len(out) : out[m].skip = 0 /\ out[m].full

\* C4: recording and consuming every segment of one splitter over a leaf and
\* joining the spans with the delimiter byte gives back the scanned part of
\* the slice.
SplitRoundTrip ==
    (pc = "done" /\ AllWhole) => Join(out, Delimiter) = Scanned

\* a round trip over a slice that starts with, holds and ends with the
\* delimiter
SplitRoundTripWitness ==
    /\ pc = "done"
    /\ AllWhole
    /\ Len(out) >= 4
    /\ \E m \in 1 .. Len(out) : out[m].span # <<>>

\* C5: a span recorded in a segment holds no delimiter byte; when the
\* segment was consumed until its delimiter was found, the span ends with the
\* byte before the delimiter, and the next segment, recorded from its start,
\* has its span start with the byte after the delimiter.
SpanExcludesDelimiter ==
    pc \in {"split", "done"} =>
    \A m \in 1 .. Len(out) :
        /\ \A k \in 1 .. Len(out[m].span) : out[m].span[k] # Delimiter
        /\ (out[m].full /\ out[m].closed) =>
              /\ slice[out[m].pos + 1] = Delimiter
              /\ out[m].span = SubSeq(slice, out[m].anchor + 2, out[m].pos)
              /\ (m < Len(out) /\ out[m + 1].skip = 0) =>
                    /\ out[m + 1].anchor = out[m].pos
                    /\ out[m + 1].span # <<>> =>
                          out[m + 1].span[1] = slice[out[m].pos + 2]

\* two segments with bytes in them, the first closed by its delimiter
SpanExcludesDelimiterWitness ==
    /\ pc \in {"split", "done"}
    /\ Len(out) >= 2
    /\ out[1].full /\ out[1].closed /\ out[1].span # <<>>
    /\ out[2].skip = 0 /\ out[2].span # <<>>

\* C6 as stated: when the slice ends with the delimiter, no segment is
\* yielded after the one that the final delimiter closed.
NoTrailingEmptySegment ==
    (pc \in {"split", "done"} /\ EndsWithDelimiter) =>
        \A m \in 1 .. Len(out) : out[m].start # Len(slice) - 1

\* C6 as the code has it: when the slice ends with the delimiter, the
\* splitter driven to its end has yielded one segment per delimiter and one
\* more, which starts behind the final delimiter and is empty, and only then
\* reports none.
TrailingEmptySegment ==
    (pc = "done" /\ EndsWithDelimiter) =>
        /\ Len(out) = Len(DelimiterPositions) + 1
        /\ out[Len(out)].start = Len(slice) - 1
        /\ out[Len(out)].span = <<>>

\* a slice with a byte before its final delimiter, driven to the end
TrailingEmptySegmentWitness ==
    /\ pc = "done"
    /\ EndsWithDelimiter
    /\ Len(out) = 2
    /\ out[1].span # <<>>

\* over a scanned part with k delimiters that does not end with one, the
\* splitter has yielded at most k + 1 segments, exactly k + 1 when it has
\* reported none, each starting where the part starts or at the delimiter
\* before it, in order; and having reported none it reports none again
YieldsEachSegmentOnce ==
    (pc \in {"split", "done"} /\ ~EndsWithDelimiter) =>
        /\ Len(out) <= Len(DelimiterPositions) + 1
        /\ [m \in 1 .. Len(out) |-> out[m].start] =
              SubSeq(<<saved.pit.pos>> \o DelimiterPositions, 1, Len(out))
        /\ pc = "done" =>
              /\ Len(out) = Len(DelimiterPositions) + 1
              /\ last.op = "split_next" /\ ~last.ok

\* C7: for a scanned part with k delimiters that does not end with one, a
\* splitter driven by for_each terminates (next() reports none), after
\* yielding exactly k + 1 segments in buffer order, and once next() has
\* reported none every later next() reports none.
SplitYieldsEachSegmentOnce ==
    /\ []YieldsEachSegmentOnce
    /\ (pc = "split") ~> (pc = "done")

\* three segments, none consumed by the closure, and next() called again
SplitYieldsEachSegmentOnceWitness ==
    /\ pc = "done"
    /\ ~EndsWithDelimiter
    /\ Len(out) = 3
    /\ \A m \in 1 .. 3 : out[m].span = <<>> /\ ~out[m].full
    /\ "again" \in DOMAIN last

----------------------------------------------------------------------------
(* A program that derives an iterator from a StrParser, as make_iter of    *)
(* the test create_an_iterator and parse_iter do:                          *)
(*                                                                         *)
(*     let mut parser = StrParser::new(s);                                 *)
(*     std::iter::from_fn(move || {                                        *)
(*         let mut split = parser.split_on_byte(byte);                     *)
(*         let n = split.next()?;                                          *)
(*         Some(n.record().consume_to_str())                               *)
(*     })                                                                  *)
(*                                                                         *)
(* The iterator is called until it returns None, MaxCalls times at most.   *)

InitIter ==
    /\ slice \in SlicesUpTo(MaxSlice)
    /\ chain = <<ParserNew("StrParser")>>
    /\ saved = NoSaved
    /\ last = NoLast
    /\ pc = "start"
    /\ out = <<>>

MakeIter ==
    /\ pc = "start"
    /\ \E byte \in Byte : saved' = [owner |-> 0, byte |-> byte]
    /\ pc' = "iter"
    /\ UNCHANGED <<slice, chain, last, out>>

\* one call of the closure
IterNext ==
    /\ pc = "iter"
    /\ Len(out) < MaxCalls
    /\ \E r \in {SplitOnByteNext(SplitOnByteNew(chain, saved.byte), 2)} :
        /\ last' = [op |-> "iter_next", ok |-> r.ok,
                    exhausted |-> ~Advance(chain, 1).ok,
                    yielded |-> Len(out)]
        /\ IF ~r.ok
           THEN /\ chain' = SubSeq(r.c, 1, 1)
                /\ pc' = "ended"
                /\ out' = out
           ELSE \E t \in {Consume(RecordIterNew(r.c), 3)} :
                /\ chain' = SubSeq(t, 1, 1)
                /\ pc' = "iter"
                /\ out' = Append(out, ToSlice(t, 3))
    /\ UNCHANGED <<slice, saved>>

NextIter ==
    \/ MakeIter
    \/ IterNext

SpecIter == InitIter /\ [][NextIter]_vars

\* C3: a call of the derived iterator made when the leaf is exhausted and a
\* segment has been yielded reports no segment, so the iterator ends.
FreshSplitterIteratorEnds ==
    (last.op = "iter_next" /\ last.exhausted /\ last.yielded >= 1) => ~last.ok

----------------------------------------------------------------------------
(* The program of the tests combining_multiple_iters and                   *)
(* if_peek_called_could_mess_up_byte_reached, for any four bytes:          *)
(*                                                                         *)
(*     Parser::new(s).ignore_byte(x).split_on_byte(d).for_each(|parser| {  *)
(*         out.push(parser.ignore_byte(y).count_byte(z))                   *)
(*     });                                                                 *)

InitCombine ==
    /\ slice \in Slices4
    /\ chain = <<ParserNew("Parser")>>
    /\ saved = NoSaved
    /\ last = NoLast
    /\ pc = "start"
    /\ out = <<>>

StartCombine ==
    /\ pc = "start"
    /\ \E x \in Byte4, d \in Byte4, y \in Byte4, z \in Byte4 :
        /\ chain' = SplitOnByteNew(IgnoreByteNew(chain, x), d)
        /\ saved' = [owner |-> 0, x |-> x, d |-> d, y |-> y, z |-> z]
    /\ pc' = "split"
    /\ UNCHANGED <<slice, last, out>>

\* one turn of for_each: the call of next() and, if it yields, the closure
ForEachCount ==
    /\ pc = "split"
    /\ \E r \in {SplitOnByteNext(chain, 3)} :
        /\ last' = [op |-> "split_next", ok |-> r.ok]
        /\ IF ~r.ok
           THEN /\ chain' = r.c
                /\ pc' = "done"
                /\ out' = out
           ELSE \E t \in {CountByte(IgnoreByteNew(r.c, saved.y), 4, saved.z)} :
                /\ chain' = SubSeq(t.c, 1, 3)
                /\ pc' = "split"
                /\ out' = Append(out, [n |-> t.n,
                                       closed |-> t.c[3].byte_reached])
    /\ UNCHANGED <<slice, saved>>

NextCombine ==
    \/ StartCombine
    \/ ForEachCount

SpecCombine == InitCombine /\ [][NextCombine]_vars

\* s without its bytes equal to b
RECURSIVE Without(_, _)
Without(s, b) ==
    IF s = <<>> THEN <<>>
    ELSE IF Head(s) = b THEN Without(Tail(s), b)
    ELSE <<Head(s)>> \o Without(Tail(s), b)

\* the parts of s between its bytes equal to d
RECURSIVE Parts(_, _)
Parts(s, d) ==
    IF \A k \in 1 .. Len(s) : s[k] # d THEN <<s>>
    ELSE <<SubSeq(s, 1, (CHOOSE k \in 1 .. Len(s) :
                            s[k] = d /\ \A j \in 1 .. k - 1 : s[j] # d) - 1)>>
         \o Parts(SubSeq(s, (CHOOSE k \in 1 .. Len(s) :
                            s[k] = d /\ \A j \in 1 .. k - 1 : s[j] # d) + 1,
                         Len(s)), d)

\* how many bytes equal to z s starts with
RECURSIVE Leading(_, _)
Leading(s, z) ==
    IF s # <<>> /\ Head(s) = z THEN 1 + Leading(Tail(s), z) ELSE 0

\* the segments the program is to see: the slice without x, split on d
CombineParts == Parts(Without(slice, saved.x), saved.d)

\* C9: the m-th count is the number of bytes z that the m-th segment,
\* without its bytes y, starts with (nothing behind the segment's delimiter
\* is counted and the next segment starts behind that delimiter); after the
\* count the splitter's byte_reached is set exactly when the count ran into
\* the delimiter that closes the segment; and for_each ends after the last
\* segment.
CountStaysInSegment ==
    pc \in {"split", "done"} =>
        /\ Len(out) <= Len(CombineParts)
        /\ pc = "done" => Len(out) = Len(CombineParts)
        /\ \A m \in 1 .. Len(out) :
              /\ out[m].n = Leading(Without(CombineParts[m], saved.y), saved.z)
              /\ out[m].closed =
                    ( /\ m < Len(CombineParts)
                      /\ out[m].n = Len(Without(CombineParts[m], saved.y)) )

\* four different bytes, x and y both in the slice, two segments, the first
\* count stopped by the delimiter and the second counted a byte
CountStaysInSegmentWitness ==
    /\ pc = "done"
    /\ Cardinality({saved.x, saved.d, saved.y, saved.z}) = 4
    /\ \E k \in 1 .. Len(slice) : slice[k] = saved.x
    /\ \E k \in 1 .. Len(slice) : slice[k] = saved.y
    /\ Len(out) = 2
    /\ out[1].closed
    /\ out[2].n >= 1

----------------------------------------------------------------------------
(* Claims about single cursors and the derived operations, checked over    *)
(* every caller.                                                           *)

\* the bytes of the slice behind position pos
RestAt(pos) == SubSeq(slice, pos + 2, Len(slice))

\* the chain is an IgnoreByte over the leaf
IgnoreOverLeaf == Len(chain) = 2 /\ chain[2].kind = "IgnoreByte"

\* C11: repeated next() on IgnoreByte(X) over a leaf returns the remaining
\* bytes of the slice with every X removed, in order, and then none (and none
\* again); a next() moves the leaf over the run of X bytes in front of it and
\* over one byte more, which it returns, or over the run alone when the slice
\* ends with it.
IgnoreByteSkipsRuns ==
    IgnoreOverLeaf =>
        /\ Drain(chain, 2).bytes = Without(RestAt(chain[1].pos), chain[2].byte)
        /\ Drain(Drain(chain, 2).c, 2).bytes = <<>>
        /\ last.op = "next" =>
              LET run == Leading(RestAt(last.pit.pos), chain[2].byte)
              IN  IF last.b # NoByte
                  THEN /\ chain[1].pos = last.pit.pos + run + 1
                       /\ last.b = slice[chain[1].pos + 1]
                  ELSE /\ run = Len(RestAt(last.pit.pos))
                       /\ chain[1].pos = last.pit.pos + run

\* a next() that skipped an ignored byte and returned the byte behind it
IgnoreByteSkipsRunsWitness ==
    /\ IgnoreOverLeaf
    /\ last.op = "next"
    /\ last.b # NoByte
    /\ chain[1].pos >= last.pit.pos + 2

\* what the last call started from, and the bytes repeated next() would have
\* returned from there
Before == Drain(last.snap, Top(last.snap)).bytes
After == Drain(chain, Top(chain)).bytes

\* C12: consume_len(len) succeeds exactly when the cursor had len units to
\* give, and then it has moved over exactly the first len of them; otherwise
\* it reports the number of units the cursor had, which is less than len (0
\* when the cursor was exhausted), and leaves the cursor exhausted.
ConsumeLenCountsUnits ==
    last.op = "consume_len" =>
        /\ last.ok = (last.len <= Len(Before))
        /\ last.ok => After = SubSeq(Before, last.len + 1, Len(Before))
        /\ ~last.ok => /\ last.n = Len(Before)
                       /\ last.n < last.len
                       /\ After = <<>>

\* a consume_len through an IgnoreByte that ran out after one unit, which
\* spanned two raw bytes
ConsumeLenCountsUnitsWitness ==
    /\ last.op = "consume_len"
    /\ ~last.ok
    /\ last.n = 1
    /\ Len(chain) = 2
    /\ chain[2].kind = "IgnoreByte"
    /\ Pit(last.snap, 2).pos = Null
    /\ Pit(chain, 2).pos = 1

\* C13: expect_byte(byte) succeeds exactly when the cursor has a next byte
\* and it is byte; when it fails it reports the byte the cursor had, or none
\* when the cursor was exhausted.
ExpectByteReportsSeen ==
    last.op = "expect_byte" =>
        /\ last.ok = (Before # <<>> /\ Before[1] = last.byte)
        /\ ~last.ok => last.err = (IF Before = <<>> THEN NoByte ELSE Before[1])

\* an expect_byte through a wrapper that failed on a byte it saw
ExpectByteReportsSeenWitness ==
    /\ last.op = "expect_byte"
    /\ ~last.ok
    /\ last.err # NoByte
    /\ Len(chain) >= 2

\* C19: advance_if(f) returns None with the point-in-time unchanged when the
\* cursor is exhausted, Some(false) with the point-in-time unchanged when the
\* next byte fails f, and Some(true) having done what one next() does when
\* the next byte satisfies f; next_if(f) returns the next byte, having done
\* what one next() does, when that byte satisfies f, and otherwise returns
\* None with the point-in-time unchanged.
ConditionalAdvance ==
    /\ last.op = "advance_if" =>
          IF Before = <<>>
          THEN last.res = "None" /\ Pit(chain, Top(chain)) = Pit(last.snap, Top(chain))
          ELSE IF Before[1] \in last.f
          THEN last.res = "Some(true)" /\ chain = NextByte(last.snap, Top(chain)).c
          ELSE last.res = "Some(false)" /\ Pit(chain, Top(chain)) = Pit(last.snap, Top(chain))
    /\ last.op = "next_if" =>
          IF Before # <<>> /\ Before[1] \in last.f
          THEN last.b = Before[1] /\ chain = NextByte(last.snap, Top(chain)).c
          ELSE last.b = NoByte /\ Pit(chain, Top(chain)) = Pit(last.snap, Top(chain))

\* an advance_if through a wrapper that refused a byte
ConditionalAdvanceWitness ==
    /\ last.op = "advance_if"
    /\ last.res = "Some(false)"
    /\ Len(chain) >= 2
    /\ Pit(chain, Top(chain)).pos # Null

\* no splitter is at level i or below it
NoSplitterUpTo(c, i) == \A j \in 1 .. i : c[j].kind # "SplitOnByteIter"

\* the span of every recording scope of the chain, the outer ones included,
\* is the range of the slice from behind the scope's anchor up to the
\* recording position of its cursor, which is the position of the leaf unless
\* a splitter is below the scope
SpanIsRange ==
    \A i \in 1 .. Len(chain) :
        chain[i].kind = "RecordIter" =>
            /\ ToSlice(chain, i) # Panic
            /\ ToSlice(chain, i) =
                  SubSeq(slice, chain[i].recorder + 2,
                         RecordPos(Pit(chain, i)) + 1)
            /\ NoSplitterUpTo(chain, i) => RecordPos(Pit(chain, i)) = chain[1].pos

\* a step leaves the recorder of every scope that outlives it as it was, and
\* a scope that the step opens gets for its recorder the recording position
\* at which record() was called
AnchorKept ==
    /\ \A i \in 1 .. Len(chain) :
          (i <= Len(chain') /\ chain[i].kind = "RecordIter") =>
              /\ chain'[i].kind = "RecordIter"
              /\ chain'[i].recorder = chain[i].recorder
    /\ ( /\ Len(chain') = Len(chain) + 1
         /\ chain'[Len(chain')].kind = "RecordIter" ) =>
            /\ chain'[Len(chain')].recorder = RecordPos(Pit(chain, Len(chain)))
            /\ ToSlice(chain', Len(chain')) = <<>>

\* C14: in a recording scope the span is the range [anchor + 1, current + 1)
\* of the slice, the anchor being the recording position at which record()
\* was called; whatever is done on top of a scope, a nested scope opened and
\* consumed included, leaves its anchor as it was, so that its span still
\* starts there.
SpanFromAnchor == []SpanIsRange /\ [][AnchorKept]_vars

\* a scope nested in a scope: the anchors differ and both spans hold bytes
SpanFromAnchorWitness ==
    /\ Len(chain) = 3
    /\ chain[2].kind = "RecordIter"
    /\ chain[3].kind = "RecordIter"
    /\ chain[3].recorder > chain[2].recorder
    /\ ToSlice(chain, 3) # <<>>
    /\ Len(ToSlice(chain, 2)) > Len(ToSlice(chain, 3))

\* the chain holds a recording wrapper
Records(c) == \E i \in 1 .. Len(c) : c[i].kind = "RecordIter"

\* C15 as stated: over a StrParser to_str and try_to_str return the span as
\* it is, try_to_str returns no error, and the text they return is valid
\* UTF-8: the span does not start or end inside a character.
TextSpanIsValid ==
    ( /\ chain[1].kind = "StrParser"
      /\ last.op \in {"to_str", "try_to_str"}
      /\ Records(chain) ) =>
        /\ last.res = ToSlice(chain, Top(chain))
        /\ last.op = "try_to_str" => last.ok
        /\ IsUtf8(last.res)

\* the part of C15 the code keeps: over a StrParser to_str and try_to_str
\* return the span as it is, and try_to_str returns no error
TextSpanUnchecked ==
    ( /\ chain[1].kind = "StrParser"
      /\ last.op \in {"to_str", "try_to_str"}
      /\ Records(chain) ) =>
        /\ last.res = ToSlice(chain, Top(chain))
        /\ last.op = "try_to_str" => last.ok

\* the level of the outermost recording wrapper of a chain that holds one
TopRecord(c) ==
    CHOOSE i \in 1 .. Len(c) :
        /\ c[i].kind = "RecordIter"
        /\ \A j \in i + 1 .. Len(c) : c[j].kind # "RecordIter"

\* C16: the recorder a chain reports is that of its outermost recording
\* wrapper, whatever wrappers are stacked over it, and none when the chain
\* holds no recording wrapper; to_slice panics exactly on the chains that
\* hold none, and so do to_str and try_to_str on them.
NoRecorderIsFatal ==
    /\ Recorder(chain, Top(chain)) =
          (IF Records(chain) THEN chain[TopRecord(chain)].recorder
           ELSE NoRecorder)
    /\ last.op = "to_slice" => ((last.res = Panic) <=> ~Records(chain))
    /\ (last.op \in {"to_str", "try_to_str"} /\ ~Records(chain)) =>
          last.res = Panic
    /\ pc = "panic" => last.res = Panic

\* to_slice has panicked on a leaf under two wrappers
NoRecorderIsFatalWitness ==
    /\ pc = "panic"
    /\ last.op = "to_slice"
    /\ Len(chain) = 3
    /\ ~Records(chain)

\* through a Stop the caller sees the point-in-time, the recorder and the
\* span of the cursor it wraps; its advance reports exhausted and consume
\* on it changes nothing
StopDelegates ==
    chain[Top(chain)].kind = "Stop" =>
        /\ ~Advance(chain, Top(chain)).ok
        /\ Consume(chain, Top(chain)) = chain
        /\ Pit(chain, Top(chain)) = Pit(chain, Top(chain) - 1)
        /\ Recorder(chain, Top(chain)) = Recorder(chain, Top(chain) - 1)
        /\ ToSlice(chain, Top(chain)) = ToSlice(chain, Top(chain) - 1)

\* a call on a Stop returns no byte and leaves the point-in-time, the
\* recorder and the span seen through it as they were; one that only
\* advances (next, count_byte) changes nothing at all; and stop() itself
\* leaves the point-in-time, the recorder and the span as they were
StopKeeps ==
    /\ (chain[Top(chain)].kind = "Stop" /\ Len(chain') = Len(chain)) =>
          /\ Pit(chain', Top(chain')) = Pit(chain, Top(chain))
          /\ Recorder(chain', Top(chain')) = Recorder(chain, Top(chain))
          /\ ToSlice(chain', Top(chain')) = ToSlice(chain, Top(chain))
          /\ last'.op \in {"next", "count_byte"} => chain' = chain
          /\ last'.op \in {"next", "peek"} => last'.b = NoByte
          /\ last'.op = "count_byte" => last'.n = 0
    /\ (Len(chain') = Len(chain) + 1 /\ chain'[Top(chain')].kind = "Stop") =>
          /\ Pit(chain', Top(chain')) = Pit(chain, Top(chain))
          /\ Recorder(chain', Top(chain')) = Recorder(chain, Top(chain))
          /\ ToSlice(chain', Top(chain')) = ToSlice(chain, Top(chain))

\* C17: the advance of a Stop always reports exhausted and changes nothing:
\* the point-in-time, the recorder and the span seen through the Stop, after
\* next, consume or count_byte on it too, are those of the wrapped cursor
\* when stop() was called.
StopFreezes == []StopDelegates /\ [][StopKeeps]_vars

\* next() was called on a Stop over a recording scope that holds a byte and
\* whose cursor has a byte left
StopFreezesWitness ==
    /\ Len(chain) = 3
    /\ chain[3].kind = "Stop"
    /\ chain[2].kind = "RecordIter"
    /\ last.op = "next"
    /\ ToSlice(chain, 3) # <<>>
    /\ Advance(chain, 2).ok

\* a leaf alone: its position is null or an index of the slice, it can
\* advance exactly when the index behind its position is one of the slice,
\* repeated next() returns the bytes behind its position in order and then
\* none, and a next() on it has moved it by one byte and returned that byte,
\* or has left it where it was and returned none
LeafByteByByte ==
    Len(chain) = 1 =>
        /\ chain[1].pos \in Null .. Len(slice) - 1
        /\ Advance(chain, 1).ok = (chain[1].pos + 1 < Len(slice))
        /\ Drain(chain, 1).bytes = RestAt(chain[1].pos)
        /\ Drain(Drain(chain, 1).c, 1).bytes = <<>>
        /\ last.op = "next" =>
              IF last.pit.pos + 1 < Len(slice)
              THEN /\ chain[1].pos = last.pit.pos + 1
                   /\ last.b = slice[chain[1].pos + 1]
              ELSE /\ chain[1].pos = last.pit.pos
                   /\ last.b = NoByte

\* C18: a leaf starts at the null position; its advance succeeds exactly
\* when the next index is within the slice and then moves by one byte, so
\* that repeated next() returns the bytes of the slice in order and then
\* none; an advance that reports exhausted leaves the position unchanged.
LeafStepsByOne == chain[1].pos = Null /\ []LeafByteByByte

\* a StrParser alone at the end of a text of two bytes has returned none
LeafStepsByOneWitness ==
    /\ Len(chain) = 1
    /\ chain[1].kind = "StrParser"
    /\ Len(slice) >= 2
    /\ last.op = "next"
    /\ last.b = NoByte
    /\ chain[1].pos = Len(slice) - 1

\* C20: every level of a chain reports the valid-encoding flag of the leaf,
\* false over a Parser and true over a StrParser, so that over a Parser
\* to_str returns the span only when it is valid text.
FlagFromLeaf ==
    /\ \A i \in 1 .. Len(chain) :
          IsValidUtf8(chain, i) = (chain[1].kind = "StrParser")
    /\ (last.op = "to_str" /\ chain[1].kind = "Parser" /\ Records(chain)) =>
          last.res = (IF IsUtf8(ToSlice(chain, Top(chain)))
                      THEN ToSlice(chain, Top(chain)) ELSE Panic)

\* to_str over a Parser, a splitter and a recording wrapper has refused a
\* span that is half a character
FlagFromLeafWitness ==
    /\ Len(chain) = 3
    /\ chain[1].kind = "Parser"
    /\ chain[2].kind = "SplitOnByteIter"
    /\ chain[3].kind = "RecordIter"
    /\ last.op = "to_str"
    /\ last.res = Panic
    /\ ToSlice(chain, 3) # <<>>

\* next() on a WhileByteFn, the outermost cursor, has reported none
WhileByteFnExhausted ==
    /\ last.op = "next"
    /\ chain[Top(chain)].kind = "WhileByteFn"
    /\ last.b = NoByte

\* C21 as stated: whenever the advance of a WhileByteFn reports exhausted,
\* the point-in-time of its inner cursor is the one taken at the start of
\* that advance.
WhileByteFnAlwaysRestores ==
    WhileByteFnExhausted => Pit(chain, Top(chain) - 1) = last.pit

\* C21 as the code has it: when the advance of a WhileByteFn reports
\* exhausted because the predicate rejected the byte, the point-in-time of
\* its inner cursor is the one taken at the start of that advance; when the
\* inner cursor itself reported exhausted nothing is restored: the inner
\* cursor stays exhausted where its own advance left it, which is the
\* snapshot over a leaf, and the end of the slice over an IgnoreByte on a
\* leaf.
WhileByteFnRestoresRejected ==
    WhileByteFnExhausted =>
        IF last.inner # NoByte
        THEN Pit(chain, Top(chain) - 1) = last.pit
        ELSE /\ NextByte(chain, Top(chain) - 1).b = NoByte
             /\ Len(chain) = 2 => Pit(chain, 1) = last.pit
             /\ (Len(chain) = 3 /\ chain[2].kind = "IgnoreByte") =>
                   chain[1].pos = Len(slice) - 1

\* a WhileByteFn over an IgnoreByte reported exhausted with the leaf moved
\* over a trailing ignored byte
WhileByteFnRestoresRejectedWitness ==
    /\ WhileByteFnExhausted
    /\ last.inner = NoByte
    /\ Len(chain) = 3
    /\ chain[2].kind = "IgnoreByte"
    /\ Pit(chain, 2) # last.pit

\* the advance of a segment that has reached its delimiter, at whatever
\* level of the chain, reports exhausted and changes nothing
ClosedSegmentExhausted ==
    \A i \in 1 .. Len(chain) :
        (chain[i].kind = "SplitOnByteIter" /\ chain[i].byte_reached) =>
            Advance(chain, i) = [c |-> chain, ok |-> FALSE]

\* a call on a segment that has reached its delimiter: next, consume_len and
\* expect_byte get nothing and change nothing; the splitter's next() yields
\* a segment, clears the flag and the record position and moves nothing
ClosedSegmentStays ==
    ( /\ chain[Top(chain)].kind = "SplitOnByteIter"
      /\ chain[Top(chain)].byte_reached
      /\ Len(chain') = Len(chain) ) =>
        /\ last'.op = "split_next" =>
              /\ last'.ok
              /\ chain' = [chain EXCEPT ![Top(chain)].byte_reached = FALSE,
                                        ![Top(chain)].record_pos = NoPos,
                                        ![Top(chain)].seg = TRUE]
        /\ last'.op \in {"next", "consume_len", "expect_byte"} =>
              chain' = chain
        /\ last'.op = "next" => last'.b = NoByte
        /\ last'.op = "consume_len" => last'.ok = (last'.len = 0) /\ last'.n = 0
        /\ last'.op = "expect_byte" => ~last'.ok /\ last'.err = NoByte

\* C23: once a segment has reached its delimiter, every further advance on
\* it reports exhausted at once and leaves its point-in-time and the inner
\* cursor unchanged, until the splitter's next() clears the flag.
SegmentStaysClosed == []ClosedSegmentExhausted /\ [][ClosedSegmentStays]_vars

\* next() was called on a segment that had reached its delimiter, with a
\* byte left behind the delimiter
SegmentStaysClosedWitness ==
    /\ chain[Top(chain)].kind = "SplitOnByteIter"
    /\ chain[Top(chain)].byte_reached
    /\ last.op = "next"
    /\ last.pit.byte_reached
    /\ Advance(chain, Top(chain) - 1).ok

\* the positions of the delimiters behind position p
DelimitersAfter(p) ==
    {q \in p + 1 .. Len(slice) - 1 : slice[q + 1] = Delimiter}

\* the position of the first delimiter behind position p
NextDelimiter(p) ==
    CHOOSE q \in DelimitersAfter(p) : \A j \in DelimitersAfter(p) : q <= j

\* C24: next() of the splitter, called when the closure left its segment
\* partly consumed, skips the rest of that segment and its delimiter: the
\* segment it returns starts behind the first delimiter that follows the
\* place the closure stopped at, its first byte is the byte behind that
\* delimiter, and next() reports none only when no delimiter follows.
NextSkipsRestOfSegment ==
    pc \in {"split", "done"} =>
        /\ \A m \in 1 .. Len(out) - 1 :
              ~out[m].full =>
                IF out[m].closed
                THEN out[m + 1].start = out[m].pos
                ELSE /\ DelimitersAfter(out[m].pos) # {}
                     /\ out[m + 1].start = NextDelimiter(out[m].pos)
                     /\ (out[m + 1].skip = 0 /\ out[m + 1].span # <<>>) =>
                           out[m + 1].span[1] =
                               slice[NextDelimiter(out[m].pos) + 2]
        /\ (pc = "done" /\ out # <<>>) =>
              /\ ~out[Len(out)].closed
              /\ DelimitersAfter(out[Len(out)].pos) = {}

\* the closure left two bytes or more of the first segment unconsumed, and
\* the second segment gave a byte
NextSkipsRestOfSegmentWitness ==
    /\ pc \in {"split", "done"}
    /\ Len(out) >= 2
    /\ ~out[1].full
    /\ ~out[1].closed
    /\ NextDelimiter(out[1].pos) >= out[1].pos + 3
    /\ out[2].skip = 0
    /\ out[2].span # <<>>

\* the point-in-time of the outermost cursor is that of a splitter segment
OnSegment == chain[PitOwner(chain, Top(chain))].kind = "SplitOnByteIter"

\* C25: after restore_pit(p) on a splitter segment the point-in-time of the
\* segment is p, the position of every cursor beneath it is the position of
\* p, and the next advance of a segment over the leaf, when p is not at a
\* delimiter, moves the leaf to the byte behind the position of p.
RestoreResyncsInner ==
    (last.op = "restore_pit" /\ OnSegment) =>
        /\ Pit(chain, Top(chain)) = last.pit
        /\ \A j \in 1 .. PitOwner(chain, Top(chain)) - 1 :
              Pit(chain, j).pos = last.pit.pos
        /\ (PitOwner(chain, Top(chain)) = 2 /\ ~last.pit.byte_reached) =>
              IF last.pit.pos + 1 < Len(slice)
              THEN Advance(chain, 2).c[1].pos = last.pit.pos + 1
              ELSE ~Advance(chain, 2).ok

\* a restore that took a segment over a wrapped leaf back by a byte or more
RestoreResyncsInnerWitness ==
    /\ last.op = "restore_pit"
    /\ OnSegment
    /\ PitOwner(chain, Top(chain)) = 3
    /\ last.from.pos > last.pit.pos
    /\ chain[1].pos = last.pit.pos

\* a splitter holds a record position only while it is at its delimiter
RecordPosNeedsDelimiter ==
    \A i \in 1 .. Len(chain) :
        (chain[i].kind = "SplitOnByteIter" /\ chain[i].record_pos # NoPos) =>
            chain[i].byte_reached

\* a next() of the outermost cursor advances layer i once at most: no
\* IgnoreByte, which advances its inner cursor in a loop, lies above it
OnceFrom(c, i) == \A j \in i + 1 .. Len(c) : c[j].kind # "IgnoreByte"

\* what a call does to the record position of the splitters of the chain
RecordPosSteps ==
    /\ last'.op = "next" =>
          \A i \in 2 .. Len(chain) :
              chain[i].kind = "SplitOnByteIter" =>
                  /\ chain'[i].record_pos # chain[i].record_pos =>
                        ~chain[i].byte_reached /\ chain'[i].byte_reached
                  /\ (~chain[i].byte_reached /\ chain'[i].byte_reached) =>
                        IF OnceFrom(chain, i)
                        THEN chain'[i].record_pos = Pit(chain, i - 1).pos
                        ELSE /\ chain'[i].record_pos >= Pit(chain, i - 1).pos
                             /\ chain'[i].record_pos < chain'[i].pos
    /\ (last'.op = "next" /\ last'.b # NoByte) =>
          \A i \in 2 .. Len(chain) :
              (chain[i].kind = "SplitOnByteIter"
                  /\ PitOwner(chain, Top(chain)) = i) =>
                  chain'[i].record_pos = NoPos
    /\ (last'.op = "split_next" /\ last'.ok) =>
          chain'[Top(chain)].record_pos = NoPos

\* C26: the record position of a splitter segment is set only while the
\* delimiter-reached flag is true; it is set by exactly the advance that
\* finds the delimiter, to the position the inner cursor had before that
\* advance (before the call, when the call advances the segment once); a
\* next() that returns a byte through the segment and a successful
\* SplitOnByte::next leave it unset.
RecordPosFollowsDelimiter ==
    []RecordPosNeedsDelimiter /\ [][RecordPosSteps]_vars

\* a segment over a wrapped leaf that a next() has just brought to its
\* delimiter, with the record position behind the position
RecordPosFollowsDelimiterWitness ==
    /\ last.op = "next"
    /\ Len(chain) = 3
    /\ chain[3].kind = "SplitOnByteIter"
    /\ chain[3].byte_reached
    /\ chain[3].record_pos # NoPos
    /\ chain[3].record_pos < chain[3].pos

\* an expectation has just failed on a byte
FailedOnByte ==
    /\ last.op \in {"expect_byte", "expect_byte_fn", "expect_none"}
    /\ ~last.ok
    /\ last.err # NoByte

\* C27: a failing expectation is not rolled back.  After expect_byte,
\* expect_byte_fn or expect_none failed on a byte, the cursor is where one
\* next() takes it, the reported byte is the byte at its position, and a
\* leaf is one position further; after one of them failed on exhaustion
\* the point-in-time of a leaf is unchanged.
FailedExpectationStays ==
    /\ FailedOnByte =>
          /\ chain = NextByte(last.snap, Top(chain)).c
          /\ last.err = NextByte(last.snap, Top(chain)).b
          /\ ByteAt(chain, Top(chain)) = last.err
          /\ chain[1].pos > last.snap[1].pos
          /\ Len(chain) = 1 => chain[1].pos = last.snap[1].pos + 1
    /\ (last.op \in {"expect_byte", "expect_byte_fn"} /\ ~last.ok
            /\ last.err = NoByte /\ Len(chain) = 1) =>
          /\ Pit(chain, 1) = Pit(last.snap, 1)
          /\ chain[1].pos = Len(slice) - 1

\* expect_byte has just failed on a byte that an IgnoreByte let through
\* after the bytes it ignores
FailedExpectationStaysWitness ==
    /\ FailedOnByte
    /\ last.op = "expect_byte"
    /\ chain[Top(chain)].kind = "IgnoreByte"
    /\ chain[1].pos > last.snap[1].pos + 1

\* the outermost cursor is one the caller can call and sees a recorder
InRecordingScope == CanUse(chain) /\ Recorder(chain, Top(chain)) # NoRecorder

\* C28: inside a recording scope, whatever next(), peek() and restore_pit()
\* of points-in-time taken from the cursor did, anchor + 1 is at most the
\* record position + 1, which is at most the length of the buffer, and
\* to_slice does not panic.
SpanBoundsHold ==
    InRecordingScope =>
        /\ PosAdd(Recorder(chain, Top(chain)), 1)
              <= PosAdd(RecordPos(Pit(chain, Top(chain))), 1)
        /\ PosAdd(RecordPos(Pit(chain, Top(chain))), 1) <= Len(slice)
        /\ ToSlice(chain, Top(chain)) # Panic

\* a restore has just taken a recording segment back to where the
\* recorder was created
SpanBoundsHoldWitness ==
    /\ InRecordingScope
    /\ last.op = "restore_pit"
    /\ OnSegment
    /\ last.from.pos > last.pit.pos
    /\ RecordPos(Pit(chain, Top(chain))) = Recorder(chain, Top(chain))

\* C29: the position in the point-in-time of every splitter segment is the
\* position of the cursor beneath it, and restoring into a segment the
\* point-in-time it has now leaves the chain as it is.
SegmentPosIsInnerPos ==
    /\ \A i \in 2 .. Len(chain) :
          chain[i].kind = "SplitOnByteIter" =>
              chain[i].pos = Pit(chain, i - 1).pos
    /\ (CanUse(chain) /\ OnSegment) =>
          RestorePit(chain, Top(chain), Pit(chain, Top(chain))) = chain

----------------------------------------------------------------------------
(* A program that records every segment of a splitter over an IgnoreByte:  *)
(*                                                                         *)
(*     Parser::new(s).ignore_byte(x).split_on_byte(d).for_each(|seg| {     *)
(*         out.push(seg.record().consume_to_slice())                       *)
(*     });                                                                 *)

InitIgnore ==
    /\ slice \in SlicesUpTo(MaxSlice)
    /\ chain = <<ParserNew("Parser")>>
    /\ saved = NoSaved
    /\ last = NoLast
    /\ pc = "start"
    /\ out = <<>>

StartIgnore ==
    /\ pc = "start"
    /\ \E x \in Byte : \E d \in Byte \ {x} :
        /\ chain' = SplitOnByteNew(IgnoreByteNew(chain, x), d)
        /\ saved' = [owner |-> 0, x |-> x, d |-> d]
    /\ pc' = "split"
    /\ UNCHANGED <<slice, last, out>>

\* one turn of for_each: the call of next() and, if it yields, the closure
ForEachSpan ==
    /\ pc = "split"
    /\ \E r \in {SplitOnByteNext(chain, 3)} :
        /\ last' = [op |-> "split_next", ok |-> r.ok]
        /\ IF ~r.ok
           THEN /\ chain' = r.c
                /\ pc' = "done"
                /\ out' = out
           ELSE \E t \in {Consume(RecordIterNew(r.c), 4)} :
                /\ chain' = SubSeq(t, 1, 3)
                /\ pc' = "split"
                /\ out' = Append(out, ToSlice(t, 4))
    /\ UNCHANGED <<slice, saved>>

NextIgnore ==
    \/ StartIgnore
    \/ ForEachSpan

SpecIgnore == InitIgnore /\ [][NextIgnore]_vars

\* C22: the spans a splitter over an IgnoreByte yields, each recorded from
\* the start of its segment and consumed to its end, are the parts of the
\* slice between the delimiters, with every ignored byte in them.
SegmentSpansKeepIgnored ==
    pc = "done" => out = Parts(slice, saved.d)

====
